---- MODULE Spec2Model ----
(***************************************************************************)
(* Model of src/vicon.py: the two acquisition threads ViconWrapper and     *)
(* VirtualViconWrapper, the controller that calls start() and stop() on    *)
(* them, the tracking client they poll and the log file they write.        *)
(*                                                                         *)
(* Python's None is the empty tuple <<>>; a present value x is <<x>>, and  *)
(* a translation or a rotation (a 3-tuple) stands for itself.              *)
(***************************************************************************)
EXTENDS Integers, Sequences, FiniteSets, TLC

\* ------------------------------------------------------------------ bounds
MaxFrames == 2      \* frames the source has ready (device) / loop bodies (synthetic)
MaxFrameNum == 2    \* the source reports frame numbers 1..MaxFrameNum
MaxStops == 2       \* calls of stop() the controller makes

\* ------------------------------------------------------------ input domains
None == <<>>
FrameNums == 1..MaxFrameNum
Translations == {<<4, 5, 6>>}
Rotations == {<<7, 8, 9>>}
ObjectCounts == {None, <<0>>, <<1>>, <<2>>}
SubjectNames == {"", "drone"}
CallbackReturns == {None, <<-1>>, <<0>>, <<2>>}
SourceLatencies == {0, 3}

VARIABLES
    kind,            \* "device": ViconWrapper, "virtual": VirtualViconWrapper
    labeled_object,  \* self.labeled_object
    callback,        \* callable(self.callback)
    running,         \* self.running
    position_log,    \* self.position_log
    wpc,             \* where the loop thread is in run()
    cpc,             \* where the controller is: "idle", or inside stop() at "join"
    connected,       \* client.is_connected()
    frame_num,       \* the local frame_num of run()
    clock,           \* readings of time.time() so far
    files,           \* the log files written, each the frames it holds
    latency_line,    \* the latency line logged in the current loop body, or None
    iterEv,          \* the calls made by the current loop body, in order
    cb_args,         \* the arguments of the callback call of the current loop body, or None
    body_in,         \* what the current loop body was given by the source and the callback
    cleanup,         \* the steps of the exit path taken so far, in order
    uncaught,        \* an exception left run()
    srcNums,         \* the frame numbers the source reported, in order
    srcKinds,        \* what the loop did with each of them: "recorded", "occluded", "skipped"
    exitCause,       \* why the loop thread left the loop
    connectAttempts, \* calls of client.connect
    everStreamed,    \* the loop thread reached the while loop
    stopCalls,       \* calls of stop() begun
    stopsReturned,   \* calls of stop() that returned
    stopRaised,      \* a call of stop() raised
    earlyStop        \* stop() was called before the loop thread finished connecting

vars == <<kind, labeled_object, callback, running, position_log, wpc, cpc, connected,
          frame_num, clock, files, latency_line, iterEv, cb_args, body_in, cleanup, uncaught,
          srcNums, srcKinds,
          exitCause, connectAttempts, everStreamed, stopCalls, stopsReturned,
          stopRaised, earlyStop>>

config == <<kind, labeled_object, callback>>
ctlVars == <<cpc, stopCalls, stopsReturned, stopRaised, earlyStop>>
loopVars == <<position_log, frame_num, clock, latency_line, iterEv, cb_args, body_in,
              srcNums, srcKinds>>

\* The state of the session state machine the loop thread is in.
Phase ==
    CASE wpc = "unstarted" -> "Idle"
      [] wpc \in {"run_begin", "connect", "configure"} -> "Connecting"
      [] wpc \in {"while", "body"} -> "Streaming"
      [] wpc \in {"finally_write", "finally_disc", "else_write"} -> "Stopping"
      [] wpc = "done" -> "Terminated"

\* ------------------------------------------------------------ construction
Init ==
    /\ kind \in {"device", "virtual"}
    /\ labeled_object \in BOOLEAN
    /\ (kind = "virtual" => labeled_object = FALSE)
    /\ callback \in BOOLEAN
    /\ running = FALSE
    /\ position_log = <<>>
    /\ wpc = "unstarted"
    /\ cpc = "idle"
    /\ connected = FALSE
    /\ frame_num = 0
    /\ clock = 0
    /\ files = <<>>
    /\ latency_line = None
    /\ iterEv = <<>>
    /\ cb_args = None
    /\ body_in = None
    /\ cleanup = <<>>
    /\ uncaught = FALSE
    /\ srcNums = <<>>
    /\ srcKinds = <<>>
    /\ exitCause = "none"
    /\ connectAttempts = 0
    /\ everStreamed = FALSE
    /\ stopCalls = 0
    /\ stopsReturned = 0
    /\ stopRaised = FALSE
    /\ earlyStop = FALSE

\* -------------------------------------------------------------- controller
\* Thread.start(): the loop thread exists and has not yet executed a statement of run().
Start ==
    /\ cpc = "idle"
    /\ wpc = "unstarted"
    /\ wpc' = "run_begin"
    /\ UNCHANGED <<config, running, connected, loopVars, files, cleanup, uncaught,
                   exitCause, connectAttempts, everStreamed, ctlVars>>

\* stop(), its first statement: self.running = False.
StopSet ==
    /\ cpc = "idle"
    /\ stopCalls < MaxStops
    /\ running' = FALSE
    /\ cpc' = "join"
    /\ stopCalls' = stopCalls + 1
    /\ earlyStop' = (earlyStop \/ Phase \in {"Idle", "Connecting"})
    /\ UNCHANGED <<config, wpc, connected, loopVars, files, cleanup, uncaught,
                   exitCause, connectAttempts, everStreamed, stopsReturned, stopRaised>>

\* stop() without the wait: it returns while the loop thread is still running.
Join_NoWait ==
    /\ cpc = "join"
    /\ cpc' = "idle"
    /\ stopRaised' = (stopRaised \/ wpc = "unstarted")
    /\ stopsReturned' = IF wpc # "unstarted" THEN stopsReturned + 1 ELSE stopsReturned
    /\ UNCHANGED <<config, running, wpc, connected, loopVars, files, cleanup, uncaught,
                   exitCause, connectAttempts, everStreamed, stopCalls, earlyStop>>

\* stop(), its second statement: self.join(). It raises RuntimeError for a thread
\* that was never started, and otherwise returns once the thread has ended.
Join ==
    /\ cpc = "join"
    /\ wpc \in {"unstarted", "done"}
    /\ cpc' = "idle"
    /\ stopRaised' = (stopRaised \/ wpc = "unstarted")
    /\ stopsReturned' = IF wpc = "done" THEN stopsReturned + 1 ELSE stopsReturned
    /\ UNCHANGED <<config, running, wpc, connected, loopVars, files, cleanup, uncaught,
                   exitCause, connectAttempts, everStreamed, stopCalls, earlyStop>>

\* ------------------------------------------------------ the loop thread: device
\* run(), up to the try: self.running = True and the client object.
RunBegin ==
    /\ wpc = "run_begin"
    /\ running' = TRUE
    /\ wpc' = IF kind = "device" THEN "connect" ELSE "while"
    /\ everStreamed' = (kind = "virtual")
    /\ UNCHANGED <<config, cpc, connected, loopVars, files, cleanup, uncaught,
                   exitCause, connectAttempts, stopCalls, stopsReturned, stopRaised,
                   earlyStop>>

\* connect with its failure swallowed: the thread goes on to configure and stream.
Connect_Swallowed ==
    /\ wpc = "connect"
    /\ connectAttempts' = connectAttempts + 1
    /\ \/ /\ connected' = TRUE
          /\ UNCHANGED exitCause
       \/ /\ exitCause' = "connect_failed"
          /\ UNCHANGED connected
    /\ wpc' = "configure"
    /\ UNCHANGED <<config, running, cpc, loopVars, files, cleanup, uncaught,
                   everStreamed, stopCalls, stopsReturned, stopRaised, earlyStop>>

\* client.connect(VICON_ADDRESS): it connects, or raises and the except clause
\* logs the error and falls through to the finally block.
Connect ==
    /\ wpc = "connect"
    /\ connectAttempts' = connectAttempts + 1
    /\ \/ /\ connected' = TRUE
          /\ wpc' = "configure"
          /\ UNCHANGED exitCause
       \/ /\ wpc' = "finally_write"
          /\ exitCause' = "connect_failed"
          /\ UNCHANGED connected
    /\ UNCHANGED <<config, running, cpc, loopVars, files, cleanup, uncaught,
                   everStreamed, stopCalls, stopsReturned, stopRaised, earlyStop>>

\* enable_*_data, set_stream_mode, set_axis_mapping: they succeed and the loop
\* begins, or one raises and the except clause falls through to the finally block.
Configure ==
    /\ wpc = "configure"
    /\ \/ /\ wpc' = "while"
          /\ everStreamed' = TRUE
          /\ UNCHANGED exitCause
       \/ /\ wpc' = "finally_write"
          /\ exitCause' = "configure_failed"
          /\ UNCHANGED everStreamed
    /\ UNCHANGED <<config, running, cpc, connected, loopVars, files, cleanup, uncaught,
                   connectAttempts, stopCalls, stopsReturned, stopRaised, earlyStop>>

\* while self.running: one reading of the flag. The record of the loop body that
\* just ended (iterEv, latency_line, cb_args) is cleared here.
LoopCheck ==
    /\ wpc = "while"
    /\ IF running
         THEN /\ (kind = "virtual" => frame_num < MaxFrames)
              /\ wpc' = "body"
              /\ UNCHANGED exitCause
         ELSE /\ wpc' = IF kind = "device" THEN "finally_write" ELSE "else_write"
              /\ exitCause' = "stopped"
    /\ iterEv' = <<>>
    /\ latency_line' = None
    /\ cb_args' = None
    /\ body_in' = None
    /\ UNCHANGED <<config, running, cpc, connected, position_log, frame_num, clock,
                   srcNums, srcKinds, files, cleanup, uncaught, connectAttempts, everStreamed,
                   stopCalls, stopsReturned, stopRaised, earlyStop>>

\* A Frame Record that carries a stale frame number instead of the frame's own.
FrameRecord_Stale(n, t, now) == [frame_id |-> 0, tvec |-> t, time |-> now * 1000]

\* A Frame Record as the device loop builds it.
FrameRecord(n, t, now) == [frame_id |-> n, tvec |-> t, time |-> now * 1000]

\* A synthetic Frame Record numbered from 0: the count taken before the increment.
VirtualRecord_ZeroBased(n, now) ==
    [frame_id |-> n - 1, tvec |-> <<0, 0, 10>>, vel |-> <<1, 1, 1>>, time |-> now * 1000]

\* A Frame Record as the synthetic loop builds it.
VirtualRecord(n, now) ==
    [frame_id |-> n, tvec |-> <<0, 0, 10>>, vel |-> <<1, 1, 1>>, time |-> now * 1000]

\* What stays as it is during a loop body that does not leave the loop.
BodyFrame ==
    UNCHANGED <<config, running, cpc, connected, files, cleanup, uncaught, exitCause,
                connectAttempts, everStreamed, stopCalls, stopsReturned, stopRaised,
                earlyStop>>

\* What stays as it is when an exception reaches the except clause.
RaiseFrame ==
    UNCHANGED <<config, running, cpc, connected, files, cleanup, uncaught,
                connectAttempts, everStreamed, stopCalls, stopsReturned, stopRaised,
                earlyStop>>

\* What one loop body was given: whether get_frame() had a frame ("yes", "no", or
\* "raised"; "generated" in the synthetic loop), the object count, the translation,
\* how the callback ended ("none": not called, "returned", "raised"), what it
\* returned, and what get_latency_total() returned when it was called.
BodyIn(ready, count, translation, cb, ret, vicon) ==
    <<[ready |-> ready, count |-> count, translation |-> translation,
       cb |-> cb, ret |-> ret, vicon |-> vicon]>>

\* No frame and no back-off: the loop goes straight back to poll again.
NoFrame_BusySpin ==
    /\ kind = "device" /\ wpc = "body"
    /\ iterEv' = <<"get_frame">>
    /\ body_in' = BodyIn("no", None, None, "none", None, None)
    /\ latency_line' = None
    /\ cb_args' = None
    /\ wpc' = "while"
    /\ UNCHANGED <<position_log, frame_num, clock, srcNums, srcKinds>>
    /\ BodyFrame

\* get_frame() is false: time.sleep(1/50).
NoFrame ==
    /\ kind = "device" /\ wpc = "body"
    /\ iterEv' = <<"get_frame", "sleep">>
    /\ body_in' = BodyIn("no", None, None, "none", None, None)
    /\ latency_line' = None
    /\ cb_args' = None
    /\ wpc' = "while"
    /\ UNCHANGED <<position_log, frame_num, clock, srcNums, srcKinds>>
    /\ BodyFrame

\* A frame with more than one object is not skipped: the first object is recorded.
SkipFrame_TakesFirst ==
    /\ kind = "device" /\ wpc = "body"
    /\ Len(srcNums) < MaxFrames
    /\ \E n \in FrameNums, oc \in ObjectCounts \ {<<1>>}, t \in Translations :
          /\ frame_num' = n
          /\ srcNums' = Append(srcNums, n)
          /\ srcKinds' = Append(srcKinds, IF oc = <<2>> THEN "recorded"
                                          ELSE IF oc = <<0>> THEN "occluded" ELSE "skipped")
          /\ body_in' = BodyIn("yes", oc, None, "none", None, None)
          /\ iterEv' = <<"get_frame", "get_frame_number", "count">>
                       \o (IF oc = <<2>> THEN <<"translation", "append">> ELSE <<>>)
          /\ position_log' = IF oc = <<2>>
                               THEN Append(position_log, FrameRecord(n, t, clock))
                               ELSE position_log
    /\ latency_line' = None
    /\ cb_args' = None
    /\ wpc' = "while"
    /\ UNCHANGED clock
    /\ BodyFrame

\* A frame is ready and the object count is not 1 (None, 0, or more than one).
SkipFrame ==
    /\ kind = "device" /\ wpc = "body"
    /\ Len(srcNums) < MaxFrames
    /\ \E n \in FrameNums, oc \in ObjectCounts \ {<<1>>} :
          /\ frame_num' = n
          /\ srcNums' = Append(srcNums, n)
          /\ srcKinds' = Append(srcKinds, IF oc = <<0>> THEN "occluded" ELSE "skipped")
          /\ body_in' = BodyIn("yes", oc, None, "none", None, None)
          /\ iterEv' = <<"get_frame", "get_frame_number", "count">>
    /\ latency_line' = None
    /\ cb_args' = None
    /\ wpc' = "while"
    /\ UNCHANGED <<position_log, clock>>
    /\ BodyFrame

\* The translation the client gives for the one object: for a labeled object with
\* no subject name no query is made and it stays None.
TranslationChoices(name) ==
    IF labeled_object /\ name = "" THEN {None} ELSE Translations \cup {None}

\* The rotation: queried only for a labeled object with a subject name.
RotationChoices(name) ==
    IF labeled_object /\ name # "" THEN Rotations \cup {None} ELSE {None}

\* An occluded frame is logged all the same, with its missing translation.
Occluded_Appended ==
    /\ kind = "device" /\ wpc = "body"
    /\ Len(srcNums) < MaxFrames
    /\ \E n \in FrameNums, name \in SubjectNames :
          /\ None \in TranslationChoices(name)
          /\ (~labeled_object => name = "")
          /\ frame_num' = n
          /\ srcNums' = Append(srcNums, n)
          /\ srcKinds' = Append(srcKinds, "occluded")
          /\ body_in' = BodyIn("yes", <<1>>, None, "none", None, None)
          /\ iterEv' = <<"get_frame", "get_frame_number", "count", "translation", "append">>
          /\ position_log' = Append(position_log, FrameRecord(n, None, clock))
    /\ latency_line' = None
    /\ cb_args' = None
    /\ wpc' = "while"
    /\ UNCHANGED clock
    /\ BodyFrame

\* A frame is ready with one object and no translation: a warning is logged.
Occluded ==
    /\ kind = "device" /\ wpc = "body"
    /\ Len(srcNums) < MaxFrames
    /\ \E n \in FrameNums, name \in SubjectNames :
          /\ None \in TranslationChoices(name)
          /\ (~labeled_object => name = "")
          /\ frame_num' = n
          /\ srcNums' = Append(srcNums, n)
          /\ srcKinds' = Append(srcKinds, "occluded")
          /\ body_in' = BodyIn("yes", <<1>>, None, "none", None, None)
          /\ iterEv' = <<"get_frame", "get_frame_number", "count", "translation", "warning">>
    /\ latency_line' = None
    /\ cb_args' = None
    /\ wpc' = "while"
    /\ UNCHANGED <<position_log, clock>>
    /\ BodyFrame

\* The latency line with the source latency added in seconds, not milliseconds.
LatencyLine_Unscaled(fc, vicon) == <<[total |-> fc + vicon, fc |-> fc, vicon |-> vicon * 1000]>>

\* The latency line: total, flight-controller part, source part in milliseconds.
LatencyLine(fc, vicon) == <<[total |-> fc + vicon * 1000, fc |-> fc, vicon |-> vicon * 1000]>>

\* The arguments of the callback: the position, the rotation when there is one,
\* and timestamp=now.
CallbackArgs(t, rot, now) == [pos |-> t, rot |-> rot, timestamp |-> <<now>>]

\* A comparison that takes None for "no latency" instead of raising.
CompareRaises_NoneIsFalse(ret) == FALSE

\* fc_latency > 0 raises TypeError when the callback returned None.
CompareRaises(ret) == ret = None

\* fc_latency > 0, for a value that can be compared.
IsPositive(ret) == ret # None /\ ret[1] > 0

\* The source latency queried up front, before the record and the callback.
DeliverEvents_QueryFirst(cb, ret) ==
    <<"get_frame", "get_frame_number", "count", "translation">>
    \o (IF IsPositive(ret) THEN <<"get_latency_total">> ELSE <<>>)
    \o <<"append">>
    \o (IF cb THEN <<"callback">> ELSE <<>>)
    \o <<"get_time_code", "compare">>
    \o (IF IsPositive(ret) THEN <<"latency_line">> ELSE <<>>)

\* The calls of a loop body that records a frame, in the order the code makes them:
\* cb says whether the callback is called, ret is the value of fc_latency.
DeliverEvents(cb, ret) ==
    <<"get_frame", "get_frame_number", "count", "translation", "append">>
    \o (IF cb THEN <<"callback">> ELSE <<>>)
    \o <<"get_time_code", "compare">>
    \o (IF IsPositive(ret) THEN <<"get_latency_total", "latency_line">> ELSE <<>>)

\* A frame is ready with one object and a translation: the record is appended, the
\* callback (if any) runs and returns ret, the time code is read, and a positive
\* return value makes the loop query the source latency and log the latency line.
\* A return value of None makes the comparison with 0 raise.
Deliver ==
    /\ kind = "device" /\ wpc = "body"
    /\ Len(srcNums) < MaxFrames
    /\ \E n \in FrameNums, name \in SubjectNames, t \in Translations,
          rot \in Rotations \cup {None}, ret \in CallbackReturns,
          vicon \in SourceLatencies :
          /\ (~labeled_object => name = "")
          /\ t \in TranslationChoices(name)
          /\ rot \in RotationChoices(name)
          /\ cb_args' = IF callback THEN CallbackArgs(t, rot, clock + 1) ELSE None
          /\ (~callback => ret = <<0>>)
          /\ (~IsPositive(ret) => vicon = 0)
          /\ body_in' = BodyIn("yes", <<1>>, t, IF callback THEN "returned" ELSE "none",
                               IF callback THEN ret ELSE None,
                               IF IsPositive(ret) /\ ~CompareRaises(ret)
                                 THEN <<vicon>> ELSE None)
          /\ frame_num' = n
          /\ srcNums' = Append(srcNums, n)
          /\ srcKinds' = Append(srcKinds, "recorded")
          /\ clock' = clock + 1
          /\ position_log' = Append(position_log, FrameRecord(n, t, clock + 1))
          /\ iterEv' = DeliverEvents(callback, ret)
          /\ IF CompareRaises(ret)
               THEN /\ latency_line' = None
                    /\ wpc' = "finally_write"
                    /\ exitCause' = "error"
               ELSE /\ latency_line' = IF IsPositive(ret) THEN LatencyLine(ret[1], vicon)
                                                          ELSE None
                    /\ wpc' = "while"
                    /\ UNCHANGED exitCause
    /\ RaiseFrame

\* The callback raises with no except clause around the loop: the exception
\* leaves run() and the finally block is not there to write the log.
CallbackRaises_Uncaught ==
    /\ kind = "device" /\ wpc = "body" /\ callback
    /\ Len(srcNums) < MaxFrames
    /\ \E n \in FrameNums, name \in SubjectNames, t \in Translations,
          rot \in Rotations \cup {None} :
          /\ (~labeled_object => name = "")
          /\ t \in TranslationChoices(name)
          /\ rot \in RotationChoices(name)
          /\ cb_args' = CallbackArgs(t, rot, clock + 1)
          /\ body_in' = BodyIn("yes", <<1>>, t, "raised", None, None)
          /\ frame_num' = n
          /\ srcNums' = Append(srcNums, n)
          /\ srcKinds' = Append(srcKinds, "recorded")
          /\ clock' = clock + 1
          /\ position_log' = Append(position_log, FrameRecord(n, t, clock + 1))
    /\ iterEv' = <<"get_frame", "get_frame_number", "count", "translation", "append",
                   "callback">>
    /\ latency_line' = None
    /\ wpc' = "done"
    /\ exitCause' = "error"
    /\ uncaught' = TRUE
    /\ UNCHANGED <<config, running, cpc, connected, files, cleanup,
                   connectAttempts, everStreamed, stopCalls, stopsReturned, stopRaised,
                   earlyStop>>

\* A frame is ready with one object and a translation, and the callback raises
\* after the record was appended: the except clause logs and the loop ends.
CallbackRaises ==
    /\ kind = "device" /\ wpc = "body" /\ callback
    /\ Len(srcNums) < MaxFrames
    /\ \E n \in FrameNums, name \in SubjectNames, t \in Translations,
          rot \in Rotations \cup {None} :
          /\ (~labeled_object => name = "")
          /\ t \in TranslationChoices(name)
          /\ rot \in RotationChoices(name)
          /\ cb_args' = CallbackArgs(t, rot, clock + 1)
          /\ body_in' = BodyIn("yes", <<1>>, t, "raised", None, None)
          /\ frame_num' = n
          /\ srcNums' = Append(srcNums, n)
          /\ srcKinds' = Append(srcKinds, "recorded")
          /\ clock' = clock + 1
          /\ position_log' = Append(position_log, FrameRecord(n, t, clock + 1))
    /\ iterEv' = <<"get_frame", "get_frame_number", "count", "translation", "append",
                   "callback">>
    /\ latency_line' = None
    /\ wpc' = "finally_write"
    /\ exitCause' = "error"
    /\ RaiseFrame

\* A call of the client raises inside the loop before anything was appended.
SourceRaises ==
    /\ kind = "device" /\ wpc = "body"
    /\ iterEv' = <<"get_frame">>
    /\ body_in' = BodyIn("raised", None, None, "none", None, None)
    /\ latency_line' = None
    /\ cb_args' = None
    /\ wpc' = "finally_write"
    /\ exitCause' = "error"
    /\ UNCHANGED <<position_log, frame_num, clock, srcNums, srcKinds>>
    /\ RaiseFrame

\* The finally block writing the log without its last record.
FinallyWrite_DropsLast ==
    /\ wpc = "finally_write"
    /\ \/ /\ files' = Append(files, SubSeq(position_log, 1, Len(position_log) - 1))
          /\ cleanup' = Append(cleanup, "write")
          /\ wpc' = "finally_disc"
          /\ UNCHANGED uncaught
       \/ /\ cleanup' = Append(cleanup, "write_failed")
          /\ uncaught' = TRUE
          /\ wpc' = "done"
          /\ UNCHANGED files
    /\ UNCHANGED <<config, running, cpc, connected, loopVars, exitCause,
                   connectAttempts, everStreamed, ctlVars>>

\* The finally block, first part: open the file and json.dump the position log.
\* open() raises when logs/ is not writable, and the exception leaves run().
FinallyWrite ==
    /\ wpc = "finally_write"
    /\ \/ /\ files' = Append(files, position_log)
          /\ cleanup' = Append(cleanup, "write")
          /\ wpc' = "finally_disc"
          /\ UNCHANGED uncaught
       \/ /\ cleanup' = Append(cleanup, "write_failed")
          /\ uncaught' = TRUE
          /\ wpc' = "done"
          /\ UNCHANGED files
    /\ UNCHANGED <<config, running, cpc, connected, loopVars, exitCause,
                   connectAttempts, everStreamed, ctlVars>>

\* The finally block, second part: if client.is_connected(): client.disconnect().
FinallyDisconnect ==
    /\ wpc = "finally_disc"
    /\ cleanup' = cleanup \o <<"is_connected">>
                          \o (IF connected THEN <<"disconnect">> ELSE <<>>)
    /\ connected' = FALSE
    /\ wpc' = "done"
    /\ UNCHANGED <<config, running, cpc, loopVars, files, uncaught, exitCause,
                   connectAttempts, everStreamed, ctlVars>>

\* --------------------------------------------------- the loop thread: synthetic
\* The one argument of the synthetic callback: the list of position and velocity,
\* and no timestamp.
VirtualCallbackArgs == [pos |-> <<0, 0, 10>>, vel |-> <<1, 1, 1>>, timestamp |-> None]

\* One body of the synthetic loop: count, append, call the callback (its return
\* value is dropped). A callback that raises ends run() at once: the loop has no
\* try, and the else clause of the while does not run.
VirtualBody ==
    /\ kind = "virtual" /\ wpc = "body"
    /\ frame_num' = frame_num + 1
    /\ clock' = clock + 1
    /\ position_log' = Append(position_log, VirtualRecord(frame_num + 1, clock + 1))
    /\ latency_line' = None
    /\ cb_args' = IF callback THEN VirtualCallbackArgs ELSE None
    /\ \/ /\ iterEv' = <<"append">> \o (IF callback THEN <<"callback">> ELSE <<>>)
          /\ body_in' = BodyIn("generated", <<1>>, <<0, 0, 10>>,
                               IF callback THEN "returned" ELSE "none", None, None)
          /\ wpc' = "while"
          /\ UNCHANGED <<uncaught, exitCause>>
       \/ /\ callback
          /\ body_in' = BodyIn("generated", <<1>>, <<0, 0, 10>>, "raised", None, None)
          /\ iterEv' = <<"append", "callback">>
          /\ wpc' = "done"
          /\ uncaught' = TRUE
          /\ exitCause' = "error"
    /\ UNCHANGED <<config, running, cpc, connected, files, cleanup, srcNums, srcKinds,
                   connectAttempts, everStreamed, ctlVars>>

\* The else clause of the synthetic while: a warning, then the log file is written.
VirtualElseWrite ==
    /\ wpc = "else_write"
    /\ \/ /\ files' = Append(files, position_log)
          /\ cleanup' = Append(cleanup, "write")
          /\ UNCHANGED uncaught
       \/ /\ cleanup' = Append(cleanup, "write_failed")
          /\ uncaught' = TRUE
          /\ UNCHANGED files
    /\ wpc' = "done"
    /\ UNCHANGED <<config, running, cpc, connected, loopVars, exitCause,
                   connectAttempts, everStreamed, ctlVars>>

\* ------------------------------------------------------------ specification
Worker ==
    \/ RunBegin \/ Connect \/ Configure \/ LoopCheck
    \/ NoFrame \/ SkipFrame \/ Occluded \/ Deliver \/ CallbackRaises \/ SourceRaises
    \/ FinallyWrite \/ FinallyDisconnect
    \/ VirtualBody \/ VirtualElseWrite

Next ==
    \/ Start \/ StopSet \/ Join
    \/ RunBegin \/ Connect \/ Configure \/ LoopCheck
    \/ NoFrame \/ SkipFrame \/ Occluded \/ Deliver \/ CallbackRaises \/ SourceRaises
    \/ FinallyWrite \/ FinallyDisconnect
    \/ VirtualBody \/ VirtualElseWrite

Spec == Init /\ [][Next]_vars

\* The operating system schedules a runnable loop thread, and a join whose thread
\* has ended returns.
FairSpec == Spec /\ WF_vars(Worker) /\ WF_vars(Join)

\* ------------------------------------------------------------------ helpers
\* How many steps of the exit path are among the kinds in S.
Count(seq, S) == Cardinality({i \in DOMAIN seq : seq[i] \in S})

\* Attempts to write the log file: open() reached, whether or not it succeeded.
WriteAttempts == Count(cleanup, {"write", "write_failed"})

\* Attempts to disconnect: the guarded disconnect of the finally block reached.
DisconnectAttempts == Count(cleanup, {"is_connected"})

\* The write of the log file failed.
WriteFailed == Count(cleanup, {"write_failed"}) > 0

\* The frame_id values of a log, in order.
FrameIds(log) == [i \in DOMAIN log |-> log[i].frame_id]

StrictlyIncreasing(seq) == \A i, j \in DOMAIN seq : i < j => seq[i] < seq[j]

\* ---------------------------------------------------------------------- C1
\* C1: a call of stop() on a started session returns only after the loop thread
\* is Terminated, and then the log file has been written (unless an external
\* call or the callback raised out of run()); a call of stop() that finds the
\* session Stopping or Terminated returns.
C1_StopBlocksUntilTerminated ==
    /\ [](stopsReturned > 0 => wpc = "done" /\ (~uncaught => Len(files) = 1))
    /\ [](cpc = "join" /\ Phase \in {"Stopping", "Terminated"} => <>(cpc = "idle"))

\* Two calls of stop() returned, the second on a Terminated session, and the one
\* log file holds the frame that was recorded.
C1_Witness ==
    /\ stopsReturned = 2
    /\ wpc = "done"
    /\ Len(position_log) >= 1
    /\ files = <<position_log>>

\* ---------------------------------------------------------------------- C2
\* C2: when stop() is called before the loop thread has finished Connecting
\* (before start(), or before the first statement of run()), stop() does not
\* raise, and the session reaches Terminated with a log file written.
C2_EarlyStopTerminates ==
    /\ [](earlyStop => ~stopRaised)
    /\ [](earlyStop /\ cpc = "join" /\ wpc # "unstarted"
            => <>(wpc = "done" /\ WriteAttempts = 1))

\* ---------------------------------------------------------------------- C3
\* C3: on every exit path of ViconWrapper.run the disconnect is attempted before
\* the write of the log file is attempted, and a terminated session has attempted
\* the disconnect.
C3_DisconnectThenWrite ==
    kind = "device" =>
        /\ \A i \in DOMAIN cleanup :
              cleanup[i] \in {"write", "write_failed"} =>
                  \E j \in 1..(i - 1) : cleanup[j] = "is_connected"
        /\ (wpc = "done" => DisconnectAttempts >= 1)

\* ---------------------------------------------------------------------- C4
\* C4: a failed write of the log file does not leave run() as an exception, and
\* the terminated session has attempted the disconnect.
C4_WriteFailureContained ==
    kind = "device" /\ WriteFailed =>
        /\ ~uncaught
        /\ (wpc = "done" => DisconnectAttempts >= 1)

\* ---------------------------------------------------------------------- C5
\* C5: after connect or configure failed the session never streams, connect was
\* called once and is not called again, the session is Stopping or Terminated,
\* and once it is Terminated the log file holds an empty frames list (unless
\* the write itself failed).
C5_ConnectFailureWritesEmptyLog ==
    exitCause \in {"connect_failed", "configure_failed"} =>
        /\ ~everStreamed
        /\ connectAttempts = 1
        /\ Phase \in {"Stopping", "Terminated"}
        /\ position_log = <<>>
        /\ WriteAttempts <= 1
        /\ (wpc = "done" /\ ~WriteFailed => files = << <<>> >>)

\* connect raised, the session is Terminated and the log file is an empty list.
C5_Witness ==
    /\ exitCause = "connect_failed"
    /\ wpc = "done"
    /\ files = << <<>> >>
    /\ ~connected

\* ---------------------------------------------------------------------- C6
\* C6: a failure raised while Streaming in ViconWrapper.run is caught: the
\* session is Stopping or Terminated, no exception leaves run() (unless the
\* write itself failed), and the log file written holds every record appended.
C6_StreamingFailureContained ==
    kind = "device" /\ exitCause = "error" =>
        /\ Phase \in {"Stopping", "Terminated"}
        /\ (~WriteFailed => ~uncaught)
        /\ (wpc \in {"finally_disc", "done"} /\ ~WriteFailed => files = <<position_log>>)

\* The callback raised on the second frame, and both records are in the log file.
C6_Witness ==
    /\ kind = "device" /\ exitCause = "error"
    /\ iterEv[Len(iterEv)] = "callback"
    /\ wpc = "done"
    /\ Len(position_log) = 2
    /\ files = <<position_log>>

\* ---------------------------------------------------------------------- C7
\* C7: a synthetic session that has ended has written its log, whether it ended
\* by stop() or by the callback raising (unless the write itself failed).
C7_VirtualAlwaysPersists ==
    kind = "virtual" /\ wpc = "done" /\ ~WriteFailed => files = <<position_log>>

\* ---------------------------------------------------------------------- C8
\* C8: after two calls of stop() on a started ViconWrapper returned, there was
\* one disconnect attempt and one write attempt in total.
C8_TwoStopsOneCleanup ==
    kind = "device" /\ stopsReturned = 2 =>
        /\ DisconnectAttempts = 1
        /\ WriteAttempts = 1

\* ---------------------------------------------------------------------- C9
\* C9: a synthetic session whose loop body ran frame_num times and was stopped
\* writes exactly frame_num records, with frame_id 1..frame_num in order and
\* every tvec (0, 0, 10).
C9_SyntheticLog ==
    kind = "virtual" =>
        /\ (exitCause = "stopped" /\ wpc = "done" /\ ~WriteFailed => Len(files) = 1)
        /\ \A k \in DOMAIN files :
              /\ Len(files[k]) = frame_num
              /\ \A i \in DOMAIN files[k] :
                    /\ files[k][i].frame_id = i
                    /\ files[k][i].tvec = <<0, 0, 10>>

\* A synthetic session stopped after two loop bodies, with its log written.
C9_Witness ==
    /\ kind = "virtual" /\ exitCause = "stopped" /\ wpc = "done"
    /\ frame_num = 2
    /\ Len(files) = 1 /\ Len(files[1]) = 2

In(seq, x) == \E i \in DOMAIN seq : seq[i] = x

\* The first place of x in seq.
Idx(seq, x) == CHOOSE i \in DOMAIN seq : seq[i] = x /\ \A j \in 1..(i - 1) : seq[j] # x

IsPrefix(a, b) == Len(a) <= Len(b) /\ \A i \in DOMAIN a : a[i] = b[i]

\* The loop body polled a frame that is occluded: no object, or one object and
\* no translation for it.
OccludedPoll(b) ==
    /\ b # None
    /\ b[1].ready = "yes"
    /\ \/ b[1].count = <<0>>
       \/ b[1].count = <<1>> /\ b[1].translation = None

\* The loop body polled a frame with more than one object.
ManyObjectsPoll(b) ==
    /\ b # None
    /\ b[1].ready = "yes"
    /\ b[1].count # None
    /\ b[1].count[1] > 1

\* The callback of the loop body returned None.
ReturnedNone(b) == b # None /\ b[1].cb = "returned" /\ b[1].ret = None

\* The callback of the loop body returned a latency greater than 0.
ReportedPositive(b) ==
    b # None /\ b[1].cb = "returned" /\ b[1].ret # None /\ b[1].ret[1] > 0

\* The place in srcNums of the frame that became the i-th record.
RecIdx(i) ==
    CHOOSE k \in DOMAIN srcKinds :
        /\ srcKinds[k] = "recorded"
        /\ Cardinality({j \in 1..k : srcKinds[j] = "recorded"}) = i

\* The source numbered the frames it delivered consecutively.
SourceConsecutive == \A k \in 1..(Len(srcNums) - 1) : srcNums[k + 1] = srcNums[k] + 1

\* --------------------------------------------------------------------- C11
\* C11: a loop body that polls an occluded frame appends no record, does not call
\* the callback, and leaves the loop thread in Streaming, back at the while.
C11_OccludedNotRecorded ==
    [][wpc = "body" /\ OccludedPoll(body_in') =>
          /\ position_log' = position_log
          /\ cb_args' = None
          /\ ~In(iterEv', "append") /\ ~In(iterEv', "callback")
          /\ wpc' = "while"
          /\ exitCause' = exitCause]_vars

\* One frame was recorded, then a frame with one object and no translation was
\* polled, and the log still holds the one record.
C11_Witness ==
    /\ OccludedPoll(body_in) /\ body_in[1].count = <<1>>
    /\ wpc = "while"
    /\ Len(position_log) = 1
    /\ Len(srcNums) = 2

C13_SingleWriteAtEnd ==
    /\ [](Phase \in {"Idle", "Connecting", "Streaming"} =>
              files = <<>> /\ WriteAttempts = 0)
    /\ [](/\ Len(files) <= 1
          /\ WriteAttempts <= 1
          /\ \A k \in DOMAIN files : files[k] = position_log)
    /\ [][IsPrefix(position_log, position_log')]_vars

\* A stopped device session has just written its two records and has yet to
\* disconnect.
C13_Witness ==
    /\ kind = "device" /\ exitCause = "stopped"
    /\ wpc = "finally_disc"
    /\ Len(position_log) = 2
    /\ files = <<position_log>>
    /\ position_log[1].frame_id # position_log[2].frame_id

\* --------------------------------------------------------------------- C14
\* C14: the synthetic loop does per frame what the device loop does: after the
\* record is appended the callback gets the position and the capture timestamp,
\* its return value is compared as the reported latency, and a session that
\* has ended has written its log.
C14_SyntheticSameSteps ==
    /\ (body_in # None /\ In(iterEv, "append") /\ callback =>
           /\ cb_args # None
           /\ cb_args.pos = position_log[Len(position_log)].tvec
           /\ cb_args.timestamp # None
           /\ cb_args.timestamp[1] * 1000 = position_log[Len(position_log)].time
           /\ (body_in[1].cb = "returned" => In(iterEv, "compare")))
    /\ (wpc = "done" /\ ~WriteFailed => files = <<position_log>>)

C16_StopRequestNeverOverwritten ==
    [][stopCalls > 0 /\ ~running => ~running']_vars

\* --------------------------------------------------------------------- C17
\* C17: in a loop body that got a translation, the record is appended once, then
\* the callback (if there is one) is called once, then, if at all, the source
\* latency is queried; the source latency is queried in no loop body that did not
\* call the callback.
C17_AppendCallbackQueryOrder ==
    /\ (body_in # None /\ body_in[1].translation # None =>
           /\ Count(iterEv, {"append"}) = 1
           /\ Count(iterEv, {"callback"}) = (IF callback THEN 1 ELSE 0)
           /\ (callback => cb_args # None /\ Idx(iterEv, "append") < Idx(iterEv, "callback"))
           /\ Count(iterEv, {"get_latency_total"}) <= 1
           /\ (In(iterEv, "get_latency_total") =>
                  /\ Idx(iterEv, "append") < Idx(iterEv, "get_latency_total")
                  /\ Idx(iterEv, "callback") < Idx(iterEv, "get_latency_total")))
    /\ (In(iterEv, "get_latency_total") =>
           /\ In(iterEv, "callback")
           /\ cb_args # None
           /\ body_in # None /\ body_in[1].translation # None)

\* A loop body appended the record, called the callback and queried the latency.
C17_Witness ==
    /\ In(iterEv, "get_latency_total")
    /\ In(iterEv, "callback")
    /\ Len(position_log) = 1
    /\ wpc = "while"

\* --------------------------------------------------------------------- C18
\* C18: a loop body sleeps exactly when get_frame() had no frame; such a body
\* polls once, sleeps once, appends nothing, calls no callback and goes back to
\* the while; no loop body polls more than once.
C18_SleepIffNoFrame ==
    /\ [](body_in # None =>
             /\ (body_in[1].ready = "no" <=> In(iterEv, "sleep"))
             /\ (body_in[1].ready = "no" =>
                    iterEv = <<"get_frame", "sleep">> /\ cb_args = None)
             /\ Count(iterEv, {"get_frame"}) <= 1
             /\ Count(iterEv, {"sleep"}) <= 1)
    /\ [][wpc = "body" /\ body_in' # None /\ body_in'[1].ready = "no" =>
             position_log' = position_log /\ wpc' = "while"]_vars

\* After one recorded frame a poll found no frame and the loop slept.
C18_Witness ==
    /\ body_in # None /\ body_in[1].ready = "no"
    /\ iterEv = <<"get_frame", "sleep">>
    /\ Len(position_log) = 1
    /\ wpc = "while"

\* --------------------------------------------------------------------- C19
\* C19: a loop body that polls a frame with more than one object appends no
\* record, calls no callback, does not query the source latency, and leaves the
\* loop thread in Streaming, back at the while.
C19_ManyObjectsSkipped ==
    [][wpc = "body" /\ ManyObjectsPoll(body_in') =>
          /\ position_log' = position_log
          /\ cb_args' = None
          /\ latency_line' = None
          /\ ~In(iterEv', "append") /\ ~In(iterEv', "callback")
          /\ ~In(iterEv', "get_latency_total")
          /\ wpc' = "while"
          /\ exitCause' = exitCause]_vars

\* One frame was recorded, then a frame with two objects was polled.
C19_Witness ==
    /\ ManyObjectsPoll(body_in) /\ body_in[1].count = <<2>>
    /\ Len(position_log) = 1
    /\ Len(srcNums) = 2
    /\ wpc = "while"

\* --------------------------------------------------------------------- C20
\* C20: when the callback of ViconWrapper.run returns None, the loop body has
\* appended the frame's record, the comparison is reached and raises, no latency
\* line is logged, the loop thread goes to the finally block with an error, and
\* the log file written there holds that frame as its last record.
C20_NoneReturnEndsSession ==
    /\ [][wpc = "body" /\ kind = "device" /\ ReturnedNone(body_in') =>
             /\ Len(position_log') = Len(position_log) + 1
             /\ position_log'[Len(position_log')].frame_id = frame_num'
             /\ In(iterEv', "compare") /\ ~In(iterEv', "latency_line")
             /\ wpc' = "finally_write"
             /\ exitCause' = "error"]_vars
    /\ [](kind = "device" /\ ReturnedNone(body_in) =>
             /\ Phase \in {"Stopping", "Terminated"}
             /\ exitCause = "error"
             /\ (wpc \in {"finally_disc", "done"} /\ ~WriteFailed =>
                    /\ files = <<position_log>>
                    /\ Len(position_log) >= 1
                    /\ position_log[Len(position_log)].frame_id = frame_num))

\* The callback returned None on the first frame; the session is Terminated and
\* the log file holds that one frame.
C20_Witness ==
    /\ kind = "device" /\ ReturnedNone(body_in)
    /\ wpc = "done"
    /\ Len(position_log) = 1
    /\ files = <<position_log>>

====
